---- MODULE Spec2Model ----
(***************************************************************************)
(* The coordinator of the chunk store: node registry and heartbeat sweep,  *)
(* upload placement, download, the encrypted chunked manifest store, node  *)
(* death handling and the healing worker.                                  *)
(***************************************************************************)
EXTENDS Integers, Sequences, FiniteSets, TLC

(* ------------------------------------------------------------------ *)
(* Program constants                                                    *)
(* ------------------------------------------------------------------ *)
CHUNK_REDUNDANCY == 3

HEARTBEAT_TIMEOUT == 30

(* ------------------------------------------------------------------ *)
(* Bounds of the model                                                  *)
(* ------------------------------------------------------------------ *)
\* config.CHUNK_SIZE_BYTES (100 KiB in the source), scaled to model bytes.
CHUNK_SIZE_BYTES == 2

\* The chunk_size the coordinator gives its ManifestChunkManager (4096 in
\* the source), scaled to the tokens of the modelled JSON text.
MANIFEST_CHUNK_SIZE == 4

\* The clock stops advancing here.
MaxTime == 62

\* The file ids the manifest directory can hold.
MaxFiles == 2

\* Files stored under Spec, where the clock runs and nodes die.
MaxUploads == 1

\* Requests the thread pool runs side by side.
MaxThreads == 2

\* Healing threads alive at once (the boot thread plus heal_now threads).
MaxWorkers == 2

(* ------------------------------------------------------------------ *)
(* Input domains                                                        *)
(* ------------------------------------------------------------------ *)
NodeIds == {"N1", "N2", "N3"}

\* file ids as uuid mints them, listed in sorted() order.
FileNames == <<"file-a", "file-b", "file-c", "file-d">>

FileIds == {FileNames[i] : i \in 1..MaxFiles}

FileIndex(f) == CHOOSE i \in 1..Len(FileNames) : FileNames[i] = f

\* f"chunk_{i:05d}" for the ordinals the model reaches.
ChunkNames == <<"chunk_00000", "chunk_00001", "chunk_00002", "chunk_00003">>

ChunkIds == {ChunkNames[i] : i \in 1..Len(ChunkNames)}

\* The filename every upload carries.
FILENAME == "data.bin"

\* The coordinator-wide manifest key, and the per-file keys generate_key()
\* hands out: a fresh one per upload, named after the file it is made for.
MANIFEST_KEY == "manifest-key"

KeyNames == <<"key-a", "key-b", "key-c", "key-d">>

\* The uploaded byte strings: 0 .. 2*CHUNK_SIZE_BYTES-1 bytes, so that files
\* of zero, one and two chunks (the last one short) are uploaded.
FileBytes(len) == [i \in 1..len |-> i % 256]

Files == {FileBytes(len) : len \in 0..(2 * CHUNK_SIZE_BYTES - 1)}

\* Advances of the clock between requests: up to the timeout, and past it.
TickSteps == {HEARTBEAT_TIMEOUT, HEARTBEAT_TIMEOUT + 1}

(* ------------------------------------------------------------------ *)
(* Sequence helpers                                                     *)
(* ------------------------------------------------------------------ *)
Range(s) == {s[i] : i \in 1..Len(s)}

Min(a, b) == IF a <= b THEN a ELSE b

RECURSIVE Concat(_)
Concat(ss) == IF ss = <<>> THEN <<>> ELSE Head(ss) \o Concat(Tail(ss))

\* list.remove(x): drops the first occurrence of x only.
RECURSIVE RemoveFirst(_, _)
RemoveFirst(s, x) ==
    IF s = <<>> THEN <<>>
    ELSE IF Head(s) = x THEN Tail(s)
    ELSE <<Head(s)>> \o RemoveFirst(Tail(s), x)

Count(s, x) == Cardinality({i \in 1..Len(s) : s[i] = x})

NoDuplicates(s) == \A i, j \in 1..Len(s) : s[i] = s[j] => i = j

\* The orderings of a finite set.
RECURSIVE Perms(_)
Perms(S) ==
    IF S = {} THEN {<<>>}
    ELSE UNION {{<<x>> \o p : p \in Perms(S \ {x})} : x \in S}

\* The subsequence of s whose elements are in S.
Filter(s, S) == SelectSeq(s, LAMBDA x : x \in S)

(* ------------------------------------------------------------------ *)
(* crypto_utils: authenticated encryption                               *)
(* ------------------------------------------------------------------ *)
encrypt_bytes(data, key) == [key |-> key, data |-> data]

\* Fernet.decrypt raises InvalidToken under any other key.
decrypt_ok(token, key) == token.key = key

decrypt_bytes(token, key) == token.data

(* ------------------------------------------------------------------ *)
(* chunk_utils                                                          *)
(* ------------------------------------------------------------------ *)
\* split_file: reads chunk_size_bytes at a time until a read returns
\* nothing; the i-th piece is written as chunk_{i:05d}.
RECURSIVE split_file(_, _)
split_file(bytes, chunk_size_bytes) ==
    IF bytes = <<>> THEN <<>>
    ELSE LET n == Min(chunk_size_bytes, Len(bytes))
         IN <<SubSeq(bytes, 1, n)>>
              \o split_file(SubSeq(bytes, n + 1, Len(bytes)), chunk_size_bytes)

\* reassemble_file: concatenates the files of the folder whose names start
\* with "chunk_", in sorted order. folder maps chunk ids to bytes.
reassemble_file(folder) ==
    LET present == {i \in 1..Len(ChunkNames) : ChunkNames[i] \in DOMAIN folder}
        sorted  == CHOOSE s \in Perms(present) :
                       \A i, j \in 1..Len(s) : i < j => s[i] < s[j]
    IN Concat([i \in 1..Len(sorted) |-> folder[ChunkNames[sorted[i]]]])

(* ------------------------------------------------------------------ *)
(* json: the manifest's text                                            *)
(* ------------------------------------------------------------------ *)
\* A manifest is {"original_filename", "chunks": [{"chunk_id", "node_ids"}],
\* "encryption_key"}; its JSON text is modelled token by token.
Manifest(chunks, key) ==
    [original_filename |-> FILENAME, chunks |-> chunks, encryption_key |-> key]

ChunkRecord(chunk_id, node_ids) == [chunk_id |-> chunk_id, node_ids |-> node_ids]

ChunkText(c) == <<"(", c.chunk_id>> \o c.node_ids \o <<")">>

json_dumps(m) ==
    <<"{", m.original_filename, "[">>
      \o Concat([i \in 1..Len(m.chunks) |-> ChunkText(m.chunks[i])])
      \o <<"]", m.encryption_key, "}">>

RECURSIVE ParseIds(_, _)
ParseIds(t, i) ==
    IF i <= Len(t) /\ t[i] \in NodeIds
    THEN LET r == ParseIds(t, i + 1)
         IN [ids |-> <<t[i]>> \o r.ids, next |-> r.next]
    ELSE [ids |-> <<>>, next |-> i]

RECURSIVE ParseChunks(_, _)
ParseChunks(t, i) ==
    IF i + 1 <= Len(t) /\ t[i] = "(" /\ t[i + 1] \in ChunkIds
    THEN LET ids == ParseIds(t, i + 2)
         IN IF ids.next <= Len(t) /\ t[ids.next] = ")"
            THEN LET rest == ParseChunks(t, ids.next + 1)
                 IN [ok |-> rest.ok,
                     chunks |-> <<ChunkRecord(t[i + 1], ids.ids)>> \o rest.chunks,
                     next |-> rest.next]
            ELSE [ok |-> FALSE, chunks |-> <<>>, next |-> i]
    ELSE [ok |-> TRUE, chunks |-> <<>>, next |-> i]

\* json.loads: the value, or JSONDecodeError (ok = FALSE) for a text that is
\* cut short, malformed or followed by extra data.
json_loads(t) ==
    IF Len(t) >= 3 /\ t[1] = "{" /\ t[3] = "["
    THEN LET cs == ParseChunks(t, 4)
             n  == cs.next
         IN IF cs.ok /\ n + 2 = Len(t) /\ t[n] = "]" /\ t[n + 2] = "}"
            THEN [ok |-> TRUE,
                  value |-> [original_filename |-> t[2], chunks |-> cs.chunks,
                             encryption_key |-> t[n + 1]]]
            ELSE [ok |-> FALSE]
    ELSE [ok |-> FALSE]

(* ------------------------------------------------------------------ *)
(* manifest_utils.ManifestChunkManager                                  *)
(* ------------------------------------------------------------------ *)
\* The store directory: for each file id the records
\* {file_id}_manifest_chunk_0000.bin, _0001.bin, ... that exist, in order.
\* d ranges over such directories.

\* serialized[i:i + chunk_size] for i in range(0, len(serialized), chunk_size)
RECURSIVE ManifestChunks(_, _)
ManifestChunks(serialized, chunk_size) ==
    IF serialized = <<>> THEN <<>>
    ELSE LET n == Min(chunk_size, Len(serialized))
         IN <<SubSeq(serialized, 1, n)>>
              \o ManifestChunks(SubSeq(serialized, n + 1, Len(serialized)), chunk_size)

\* save_manifest: writes record idx for every chunk of the new text; a
\* record the directory already holds at another index is left as it is.
save_manifest(d, file_id, manifest_data) ==
    LET chunks == ManifestChunks(json_dumps(manifest_data), MANIFEST_CHUNK_SIZE)
        old    == d[file_id]
        count  == IF Len(chunks) >= Len(old) THEN Len(chunks) ELSE Len(old)
    IN [d EXCEPT ![file_id] =
           [idx \in 1..count |->
               IF idx <= Len(chunks)
               THEN encrypt_bytes(chunks[idx], MANIFEST_KEY)
               ELSE old[idx]]]

\* load_manifest: reads records 0, 1, ... up to the first missing one,
\* decrypts and concatenates them and parses the text.
load_manifest(d, file_id) ==
    LET recs == d[file_id]
    IN IF \E i \in 1..Len(recs) : ~decrypt_ok(recs[i], MANIFEST_KEY)
       THEN [status |-> "InvalidToken"]
       ELSE LET manifest_data_bytes ==
                    Concat([i \in 1..Len(recs) |-> decrypt_bytes(recs[i], MANIFEST_KEY)])
            IN IF manifest_data_bytes = <<>>
               THEN [status |-> "FileNotFoundError"]
               ELSE LET parsed == json_loads(manifest_data_bytes)
                    IN IF parsed.ok
                       THEN [status |-> "ok", manifest |-> parsed.value]
                       ELSE [status |-> "JSONDecodeError"]

update_manifest(d, file_id, updated_manifest) ==
    save_manifest(d, file_id, updated_manifest)

\* delete_manifest: removes records 0, 1, ... up to the first missing one.
delete_manifest(d, file_id) == [d EXCEPT ![file_id] = <<>>]

\* list_manifests: the sorted ids that have at least one record.
list_manifests(d) ==
    SelectSeq(FileNames, LAMBDA f : f \in DOMAIN d /\ d[f] # <<>>)

(* ------------------------------------------------------------------ *)
(* Coordinator: the node registry                                       *)
(* ------------------------------------------------------------------ *)
\* The nodes dict, in insertion order: a sequence of [node_id, last_seen].
\* ns ranges over such registries.
Registered(ns) == {ns[i].node_id : i \in 1..Len(ns)}

\* list(nodes.keys())
NodeKeys(ns) == [i \in 1..Len(ns) |-> ns[i].node_id]

LastSeen(ns, node_id) ==
    ns[CHOOSE i \in 1..Len(ns) : ns[i].node_id = node_id].last_seen

SetLastSeen(ns, node_id, t) ==
    [i \in 1..Len(ns) |->
        IF ns[i].node_id = node_id THEN [ns[i] EXCEPT !.last_seen = t] ELSE ns[i]]

\* del nodes[node_id]
DelNode(ns, node_id) == SelectSeq(ns, LAMBDA r : r.node_id # node_id)

\* register_node: nodes[node_id] = {..., "last_seen": time.time()}; a known
\* key keeps its place in the dict, a new one goes to the end.
register_node(ns, node_id, t) ==
    IF node_id \in Registered(ns)
    THEN SetLastSeen(ns, node_id, t)
    ELSE Append(ns, [node_id |-> node_id, last_seen |-> t])

(* ------------------------------------------------------------------ *)
(* Coordinator: mark_node_dead                                          *)
(* ------------------------------------------------------------------ *)
\* The loop over one manifest's chunks: the dead node is removed from the
\* node_ids that hold it (list.remove) and the chunk is queued when it is
\* left with fewer than CHUNK_REDUNDANCY entries and is not queued yet.
RECURSIVE MarkChunks(_, _, _)
MarkChunks(chunks, dead_node_id, q) ==
    IF chunks = <<>>
    THEN [chunks |-> <<>>, queue |-> q, needs_update |-> FALSE]
    ELSE LET c    == Head(chunks)
             hit  == dead_node_id \in Range(c.node_ids)
             ids  == IF hit THEN RemoveFirst(c.node_ids, dead_node_id) ELSE c.node_ids
             q1   == IF hit /\ Len(ids) < CHUNK_REDUNDANCY /\ c.chunk_id \notin Range(q)
                     THEN Append(q, c.chunk_id)
                     ELSE q
             rest == MarkChunks(Tail(chunks), dead_node_id, q1)
         IN [chunks |-> <<[c EXCEPT !.node_ids = ids]>> \o rest.chunks,
             queue |-> rest.queue,
             needs_update |-> hit \/ rest.needs_update]

\* The loop over all_file_ids. Only FileNotFoundError is caught: any other
\* failure of load_manifest leaves the function as an exception (raised),
\* with the manifests written and the ids queued so far kept.
RECURSIVE MarkFiles(_, _, _, _)
MarkFiles(all_file_ids, dead_node_id, d, q) ==
    IF all_file_ids = <<>>
    THEN [disk |-> d, queue |-> q, raised |-> FALSE]
    ELSE LET file_id == Head(all_file_ids)
             l       == load_manifest(d, file_id)
         IN IF l.status = "FileNotFoundError"
            THEN MarkFiles(Tail(all_file_ids), dead_node_id, d, q)
            ELSE IF l.status # "ok"
            THEN [disk |-> d, queue |-> q, raised |-> TRUE]
            ELSE LET r  == MarkChunks(l.manifest.chunks, dead_node_id, q)
                     d1 == IF r.needs_update
                           THEN update_manifest(d, file_id,
                                    [l.manifest EXCEPT !.chunks = r.chunks])
                           ELSE d
                 IN MarkFiles(Tail(all_file_ids), dead_node_id, d1, r.queue)

mark_node_dead(dead_node_id, d, q) ==
    MarkFiles(list_manifests(d), dead_node_id, d, q)

(* ------------------------------------------------------------------ *)
(* Coordinator: heartbeat                                               *)
(* ------------------------------------------------------------------ *)
\* The variant of the sweep's test that also evicts at exactly the timeout.
TimedOut_inclusive(t, last_seen) == t - last_seen >= HEARTBEAT_TIMEOUT

\* now - nodes[node_id].get("last_seen", 0) > HEARTBEAT_TIMEOUT
TimedOut(t, last_seen) == t - last_seen > HEARTBEAT_TIMEOUT

\* The variant of the sweep loop that calls mark_node_dead for every key
\* and deletes the key only past the timeout.
RECURSIVE Sweep_marks_all(_, _, _, _, _)
Sweep_marks_all(keys, t, ns, d, q) ==
    IF keys = <<>>
    THEN [status_code |-> 200, nodes |-> ns, disk |-> d, queue |-> q]
    ELSE LET node_id == Head(keys)
         IN IF t - LastSeen(ns, node_id) >= 0
            THEN LET r == mark_node_dead(node_id, d, q)
                 IN IF r.raised
                    THEN [status_code |-> 500, nodes |-> ns,
                          disk |-> r.disk, queue |-> r.queue]
                    ELSE Sweep_marks_all(Tail(keys), t,
                             IF TimedOut(t, LastSeen(ns, node_id))
                             THEN DelNode(ns, node_id) ELSE ns,
                             r.disk, r.queue)
            ELSE Sweep_marks_all(Tail(keys), t, ns, d, q)

\* The sweep loop over list(nodes.keys()): mark_node_dead, then del. An
\* exception out of mark_node_dead ends the request with a 500 before the
\* del, and before the nodes that follow are looked at.
RECURSIVE Sweep(_, _, _, _, _)
Sweep(keys, t, ns, d, q) ==
    IF keys = <<>>
    THEN [status_code |-> 200, nodes |-> ns, disk |-> d, queue |-> q]
    ELSE LET node_id == Head(keys)
         IN IF TimedOut(t, LastSeen(ns, node_id))
            THEN LET r == mark_node_dead(node_id, d, q)
                 IN IF r.raised
                    THEN [status_code |-> 500, nodes |-> ns,
                          disk |-> r.disk, queue |-> r.queue]
                    ELSE Sweep(Tail(keys), t, DelNode(ns, node_id), r.disk, r.queue)
            ELSE Sweep(Tail(keys), t, ns, d, q)

\* The variant of heartbeat that sweeps before it refreshes the caller.
heartbeat_sweep_first(node_id, t, ns, d, q) ==
    LET r == Sweep(NodeKeys(ns), t, ns, d, q)
    IN IF r.status_code # 200 THEN r
       ELSE IF node_id \in Registered(r.nodes)
       THEN [r EXCEPT !.nodes = SetLastSeen(r.nodes, node_id, t)]
       ELSE [r EXCEPT !.status_code = 404]

\* The variant of heartbeat that registers an unknown caller.
heartbeat_upsert(node_id, t, ns, d, q) ==
    LET ns1 == register_node(ns, node_id, t)
    IN Sweep(NodeKeys(ns1), t, ns1, d, q)

\* heartbeat: a known caller's last_seen is set to now, then the sweep
\* runs; an unknown caller gets HTTPException(404) and nothing else runs.
heartbeat(node_id, t, ns, d, q) ==
    IF node_id \in Registered(ns)
    THEN LET ns1 == SetLastSeen(ns, node_id, t)
         IN Sweep(NodeKeys(ns1), t, ns1, d, q)
    ELSE [status_code |-> 404, nodes |-> ns, disk |-> d, queue |-> q]

(* ------------------------------------------------------------------ *)
(* Storage nodes (node_server)                                          *)
(* ------------------------------------------------------------------ *)
\* bl maps each node to its chunk folder: chunk id -> stored bytes, NoBlob
\* where the folder has no such file. upset is the set of nodes whose
\* server answers; a call to any other node fails.
NoBlob == [key |-> "", data |-> <<>>]

EmptyFolder == [c \in ChunkIds |-> NoBlob]

\* store_chunk: chunk.save(CHUNK_FOLDER/chunk_id), overwriting.
store_chunk(bl, node_id, chunk_id, content) ==
    [bl EXCEPT ![node_id] = [@ EXCEPT ![chunk_id] = content]]

\* get_chunk answers 200 with the file when it exists, 404 otherwise.
get_chunk_ok(bl, upset, node_id, chunk_id) ==
    node_id \in upset /\ bl[node_id][chunk_id] # NoBlob

(* ------------------------------------------------------------------ *)
(* Coordinator: upload_file                                             *)
(* ------------------------------------------------------------------ *)
\* random.sample(available_nodes, min(CHUNK_REDUNDANCY, len(available_nodes))):
\* every ordered choice of that many distinct registered nodes.
Samples(ns) ==
    LET k == Min(CHUNK_REDUNDANCY, Len(ns))
    IN UNION {Perms(S) : S \in {T \in SUBSET Registered(ns) : Cardinality(T) = k}}

RECURSIVE StoreAll(_, _, _, _)
StoreAll(bl, targets, chunk_id, content) ==
    IF targets = <<>> THEN bl
    ELSE StoreAll(store_chunk(bl, Head(targets), chunk_id, content),
                  Tail(targets), chunk_id, content)

\* The variant of the loop over chunk_paths that records every selected
\* node, whatever it answered.
RECURSIVE PlaceChunks_records_selected(_, _, _, _, _, _)
PlaceChunks_records_selected(pieces, i, file_key, ns, bl, upset) ==
    IF i > Len(pieces) THEN {[chunk_records |-> <<>>, blobs |-> bl]}
    ELSE UNION {
           LET bl1 == StoreAll(bl, Filter(selected_nodes, upset), ChunkNames[i],
                               encrypt_bytes(pieces[i], file_key))
           IN {[chunk_records |-> <<ChunkRecord(ChunkNames[i], selected_nodes)>>
                                     \o r.chunk_records,
                blobs |-> r.blobs] :
                  r \in PlaceChunks_records_selected(pieces, i + 1, file_key, ns,
                                                     bl1, upset)}
           : selected_nodes \in Samples(ns)}

\* The loop over chunk_paths from the i-th piece on: the chunk is encrypted
\* under the file key and posted to each selected node; the nodes that
\* answered 200 are recorded, and a chunk no node accepted is skipped.
RECURSIVE PlaceChunks(_, _, _, _, _, _)
PlaceChunks(pieces, i, file_key, ns, bl, upset) ==
    IF i > Len(pieces) THEN {[chunk_records |-> <<>>, blobs |-> bl]}
    ELSE LET chunk_id        == ChunkNames[i]
             encrypted_chunk == encrypt_bytes(pieces[i], file_key)
         IN UNION {
              LET chunk_success_nodes == Filter(selected_nodes, upset)
                  bl1 == StoreAll(bl, chunk_success_nodes, chunk_id, encrypted_chunk)
                  rec == IF chunk_success_nodes # <<>>
                         THEN <<ChunkRecord(chunk_id, chunk_success_nodes)>>
                         ELSE <<>>
              IN {[chunk_records |-> rec \o r.chunk_records, blobs |-> r.blobs] :
                     r \in PlaceChunks(pieces, i + 1, file_key, ns, bl1, upset)}
              : selected_nodes \in Samples(ns)}

\* upload_file: the file is split first; with no node registered the
\* handler returns ({"error": "No nodes online"}, 503) and nothing is
\* stored; otherwise the manifest is saved with the chunks some node took.
upload_file(bytes, file_id, file_key, ns, d, bl, upset) ==
    LET chunk_paths == split_file(bytes, CHUNK_SIZE_BYTES)
    IN IF ns = <<>>
       THEN {[returned |-> "No nodes online", chunks_stored |-> 0,
              disk |-> d, blobs |-> bl]}
       ELSE {[returned |-> "file_id", chunks_stored |-> Len(r.chunk_records),
              disk |-> save_manifest(d, file_id, Manifest(r.chunk_records, file_key)),
              blobs |-> r.blobs] :
                 r \in PlaceChunks(chunk_paths, 1, file_key, ns, bl, upset)}

(* ------------------------------------------------------------------ *)
(* Coordinator: download_file                                           *)
(* ------------------------------------------------------------------ *)
\* The variant of the loop over one chunk's node_ids that gives up at the
\* first registered node whose answer cannot be used.
FetchChunk_first_only(node_ids, chunk_id, file_key, ns, bl, upset) ==
    LET known == Filter(node_ids, Registered(ns))
    IN IF known = <<>> THEN [success |-> FALSE]
       ELSE IF /\ get_chunk_ok(bl, upset, Head(known), chunk_id)
               /\ decrypt_ok(bl[Head(known)][chunk_id], file_key)
       THEN [success |-> TRUE,
             decrypted_chunk |-> decrypt_bytes(bl[Head(known)][chunk_id], file_key)]
       ELSE [success |-> FALSE]

\* The loop over one chunk's node_ids: the first node that is registered,
\* answers 200 and whose bytes decrypt under the file key gives the chunk.
RECURSIVE FetchChunk(_, _, _, _, _, _)
FetchChunk(node_ids, chunk_id, file_key, ns, bl, upset) ==
    IF node_ids = <<>> THEN [success |-> FALSE]
    ELSE LET node_id == Head(node_ids)
         IN IF /\ node_id \in Registered(ns)
               /\ get_chunk_ok(bl, upset, node_id, chunk_id)
               /\ decrypt_ok(bl[node_id][chunk_id], file_key)
            THEN [success |-> TRUE,
                  decrypted_chunk |-> decrypt_bytes(bl[node_id][chunk_id], file_key)]
            ELSE FetchChunk(Tail(node_ids), chunk_id, file_key, ns, bl, upset)

\* The loop over manifest["chunks"], filling the temp folder; it stops at
\* the first chunk no node gave.
RECURSIVE FetchAll(_, _, _, _, _, _)
FetchAll(chunks, folder, file_key, ns, bl, upset) ==
    IF chunks = <<>> THEN [success |-> TRUE, folder |-> folder]
    ELSE LET chunk == Head(chunks)
             got   == FetchChunk(chunk.node_ids, chunk.chunk_id, file_key, ns, bl, upset)
         IN IF got.success
            THEN FetchAll(Tail(chunks),
                          [c \in DOMAIN folder \cup {chunk.chunk_id} |->
                              IF c = chunk.chunk_id THEN got.decrypted_chunk ELSE folder[c]],
                          file_key, ns, bl, upset)
            ELSE [success |-> FALSE, failed |-> chunk.chunk_id, folder |-> folder]

\* download_file: what the handler returns. load_manifest raises for a
\* manifest it cannot find or parse, which ends the request as an error.
download_file(file_id, ns, d, bl, upset) ==
    LET l == load_manifest(d, file_id)
    IN IF l.status # "ok"
       THEN [returned |-> l.status, content |-> <<>>]
       ELSE LET got == FetchAll(l.manifest.chunks, <<>>, l.manifest.encryption_key,
                                ns, bl, upset)
            IN IF got.success
               THEN [returned |-> "file", content |-> reassemble_file(got.folder)]
               ELSE [returned |-> "Failed to fetch chunk", content |-> <<>>]

(* ------------------------------------------------------------------ *)
(* Coordinator: what a request is answered with                         *)
(* ------------------------------------------------------------------ *)
\* `return body`: FastAPI answers 200 with the body.
http_returned(body) == [status_code |-> 200, body |-> body]

\* `return body, code`: the handler returns a tuple, which FastAPI
\* serialises as the JSON array [body, code] and answers with a 200; the
\* code is part of the body and not the status of the response.
http_returned_tuple(body, code) == [status_code |-> 200, body |-> <<body, code>>]

\* An exception that is no HTTPException leaves the handler: a 500.
http_raised(exception) == [status_code |-> 500, body |-> exception]

\* The response of upload_file for an outcome r of the handler.
upload_file_response(r) ==
    IF r.returned = "No nodes online"
    THEN http_returned_tuple("No nodes online", 503)
    ELSE http_returned(r.chunks_stored)

\* The response of download_file for an outcome r of the handler: the
\* FileResponse, the (error, 502) tuple, or the exception load_manifest
\* raised.
download_file_response(r) ==
    IF r.returned = "file" THEN http_returned(r.content)
    ELSE IF r.returned = "Failed to fetch chunk"
    THEN http_returned_tuple("Failed to fetch chunk", 502)
    ELSE http_raised(r.returned)

\* get_manifest: load_manifest either raises or returns the manifest, so
\* the `if not manifest` branch is taken only for an empty JSON value.
get_manifest(d, file_id) ==
    LET l == load_manifest(d, file_id)
    IN IF l.status # "ok" THEN http_raised(l.status)
       ELSE http_returned(l.manifest)

\* get_keys_info: the number of stored manifests.
get_keys_info(d) == http_returned(Len(list_manifests(d)))

\* get_system_status: every listed manifest is loaded inside try/except
\* Exception; one that cannot be loaded is reported in manifest_errors.
get_system_status(ns, d) ==
    LET all_manifest_ids == list_manifests(d)
        loaded == {f \in Range(all_manifest_ids) : load_manifest(d, f).status = "ok"}
    IN http_returned(
         [node_count       |-> Len(ns),
          registered_nodes |-> NodeKeys(ns),
          file_count       |-> Len(all_manifest_ids),
          files            |-> [f \in loaded |-> Len(load_manifest(d, f).manifest.chunks)],
          manifest_errors  |-> Range(all_manifest_ids) \ loaded])

\* cm is the chunk_map dict; a chunk id that is no key maps to <<>>.
\* get_chunk_locations: the nodes assigned to the chunk, or a 404.
get_chunk_locations(cm, chunk_id) ==
    IF cm[chunk_id] # <<>> THEN http_returned(cm[chunk_id])
    ELSE [status_code |-> 404, body |-> "Chunk not found"]

\* assign_chunk: the node is appended to the chunk's list unless it is in it.
assign_chunk(cm, chunk_id, node_id) ==
    [cm EXCEPT ![chunk_id] =
        IF node_id \in Range(@) THEN @ ELSE Append(@, node_id)]

(* ------------------------------------------------------------------ *)
(* Coordinator: staging files and temp directories                      *)
(* ------------------------------------------------------------------ *)
\* The paths an upload writes: TEMP_UPLOAD_DIR/temp_{file_id}_{filename}
\* and, by split_file, chunks_out/chunk_{i:05d} for every piece.
upload_file_paths(bytes, file_id) ==
    {<<"temp_uploads", file_id>>}
      \cup {<<"chunks_out", ChunkNames[i]>> :
               i \in 1..Len(split_file(bytes, CHUNK_SIZE_BYTES))}

\* What of them is left when the upload with outcome r has returned: they
\* are written before the registry is looked at, and the os.remove calls
\* are the last statements of the successful path only.
upload_file_scratch(r, bytes, file_id) ==
    IF r.returned = "No nodes online" THEN upload_file_paths(bytes, file_id)
    ELSE {}

\* The directory a download makes once the manifest is loaded,
\* TEMP_CHUNK_DIR/{file_id}.
download_file_paths(r, file_id) ==
    IF r.returned \in {"file", "Failed to fetch chunk"}
    THEN {<<"temp_chunks", file_id>>}
    ELSE {}

\* What of it is left when the download with outcome r has finished:
\* cleanup_temp_folder is scheduled on the successful path only.
download_file_scratch(r, file_id) ==
    IF r.returned = "file" THEN {}
    ELSE download_file_paths(r, file_id)

(* ------------------------------------------------------------------ *)
(* Coordinator: heal_chunks                                             *)
(* ------------------------------------------------------------------ *)
\* chunk["node_ids"].append(new_node_id); alive_nodes.append(new_node_id):
\* alive_nodes is chunk.get("node_ids", []), the very list of the manifest,
\* so the new node is appended to it twice.
HealAppend(node_ids, new_node_id) == node_ids \o <<new_node_id, new_node_id>>

\* The loop over the shuffled available_nodes (every order), each with a
\* donor drawn by random.choice from the list as it stands (every choice).
RECURSIVE HealLoop(_, _, _, _, _, _, _)
HealLoop(available_nodes, node_ids, needed, chunk_id, ns, bl, upset) ==
    IF available_nodes = {} \/ needed <= 0
    THEN {[node_ids |-> node_ids, blobs |-> bl]}
    ELSE UNION {UNION {
           LET rest == available_nodes \ {new_node_id}
           IN IF donor_node_id \notin Registered(ns)
              THEN HealLoop(rest, node_ids, needed, chunk_id, ns, bl, upset)
              ELSE IF /\ get_chunk_ok(bl, upset, donor_node_id, chunk_id)
                      /\ new_node_id \in upset
              THEN HealLoop(rest, HealAppend(node_ids, new_node_id), needed - 1,
                            chunk_id, ns,
                            store_chunk(bl, new_node_id, chunk_id,
                                        bl[donor_node_id][chunk_id]),
                            upset)
              ELSE HealLoop(rest, node_ids, needed, chunk_id, ns, bl, upset)
           : donor_node_id \in Range(node_ids)} : new_node_id \in available_nodes}

\* The variant of the body that gives a chunk with no node id left to a
\* registered node, without a donor to copy from, and saves the manifest.
HealChunk_adopt(manifest, i, file_id, ns, d, bl, upset) ==
    IF manifest.chunks[i].node_ids # <<>> \/ ns = <<>>
    THEN {[disk |-> d, blobs |-> bl, died |-> FALSE]}
    ELSE {[disk |-> update_manifest(d, file_id,
                       [manifest EXCEPT !.chunks[i].node_ids = <<new_node_id>>]),
           blobs |-> bl, died |-> FALSE] : new_node_id \in Registered(ns)}

\* The body run for the chunk found at position i of a manifest.
HealChunk(manifest, i, file_id, ns, d, bl, upset) ==
    LET alive_nodes == manifest.chunks[i].node_ids
        needed      == CHUNK_REDUNDANCY - Len(alive_nodes)
    IN IF needed <= 0 \/ alive_nodes = <<>>
       THEN {[disk |-> d, blobs |-> bl, died |-> FALSE]}
       ELSE {[disk |-> update_manifest(d, file_id,
                          [manifest EXCEPT !.chunks[i].node_ids = r.node_ids]),
              blobs |-> r.blobs, died |-> FALSE] :
                 r \in HealLoop(Registered(ns) \ Range(alive_nodes), alive_nodes,
                                needed, manifest.chunks[i].chunk_id, ns, bl, upset)}

\* The scan of all_file_ids for the popped chunk id: the first manifest
\* that has it is healed. Only FileNotFoundError is caught: any other
\* failure of load_manifest ends the worker thread (died).
RECURSIVE HealScan(_, _, _, _, _, _)
HealScan(all_file_ids, chunk_id_to_heal, ns, d, bl, upset) ==
    IF all_file_ids = <<>> THEN {[disk |-> d, blobs |-> bl, died |-> FALSE]}
    ELSE LET file_id == Head(all_file_ids)
             l       == load_manifest(d, file_id)
         IN IF l.status = "FileNotFoundError"
            THEN HealScan(Tail(all_file_ids), chunk_id_to_heal, ns, d, bl, upset)
            ELSE IF l.status # "ok"
            THEN {[disk |-> d, blobs |-> bl, died |-> TRUE]}
            ELSE LET hits == {i \in 1..Len(l.manifest.chunks) :
                                 l.manifest.chunks[i].chunk_id = chunk_id_to_heal}
                 IN IF hits # {}
                    THEN HealChunk(l.manifest,
                                   CHOOSE i \in hits : \A j \in hits : i <= j,
                                   file_id, ns, d, bl, upset)
                    ELSE HealScan(Tail(all_file_ids), chunk_id_to_heal, ns, d, bl, upset)

\* One turn of the worker's loop on a non-empty queue: pop(0), then the scan.
heal_chunks(q, ns, d, bl, upset) ==
    {[queue |-> Tail(q), disk |-> r.disk, blobs |-> r.blobs, died |-> r.died] :
        r \in HealScan(list_manifests(d), Head(q), ns, d, bl, upset)}

(* ------------------------------------------------------------------ *)
(* State                                                                *)
(* ------------------------------------------------------------------ *)
VARIABLES
    now,            \* time.time()
    nodes,          \* the coordinator's registry
    up,             \* the storage nodes whose server answers
    blobs,          \* each storage node's chunk folder
    disk,           \* the manifest directory
    healing_queue,  \* the coordinator's healing_queue list
    workers,        \* the heal_chunks threads alive
    uploaded,       \* history: the bytes each file id was uploaded with
    hb,             \* the heartbeat requests in progress, one per pool thread
    savers,         \* the save_manifest calls in progress, one per thread
    lock,           \* the thread that holds ManifestChunkManager._lock, 0 if none
    healer,         \* the position and locals of the heal_chunks thread
    loader,         \* the position and locals of a load_manifest call
    chunk_map       \* the coordinator's chunk_map dict: chunk id -> node ids

\* The position and locals of a heartbeat request in a pool thread.
Threads == 1..MaxThreads

NoManifest == [original_filename |-> "", chunks |-> <<>>, encryption_key |-> ""]

IdleHeartbeat ==
    [pc |-> "idle", t |-> 0, keys |-> <<>>, dead_node_id |-> "",
     all_file_ids |-> <<>>, manifest |-> NoManifest, i |-> 0,
     needs_update |-> FALSE]

\* The heal_chunks thread between two turns of its loop.
IdleHealer ==
    [pc |-> "idle", chunk_id_to_heal |-> "", all_file_ids |-> <<>>,
     manifest |-> NoManifest, i |-> 0, loaded |-> <<>>]

\* The position and locals of a load_manifest call; `start` is the
\* history of what the file's records were when the call began.
IdleLoader ==
    [pc |-> "idle", file_id |-> "", idx |-> 0, manifest_data_bytes |-> <<>>,
     returned |-> [status |-> ""], start |-> <<>>]

\* The position and locals of a save_manifest call.
IdleSaver == [pc |-> "idle", file_id |-> "", chunks |-> <<>>, idx |-> 0]

handlers == <<hb, savers, lock, healer, loader>>

vars == <<now, nodes, up, blobs, disk, healing_queue, workers, uploaded, handlers,
          chunk_map>>

Init ==
    /\ now = 0
    /\ nodes = <<>>
    /\ up = NodeIds
    /\ blobs = [n \in NodeIds |-> EmptyFolder]
    /\ disk = [f \in FileIds |-> <<>>]
    /\ healing_queue = <<>>
    /\ workers = 1
    /\ uploaded = [f \in FileIds |-> <<>>]
    /\ hb = [t \in Threads |-> IdleHeartbeat]
    /\ savers = [t \in Threads |-> IdleSaver]
    /\ lock = 0
    /\ healer = IdleHealer
    /\ loader = IdleLoader
    /\ chunk_map = [c \in ChunkIds |-> <<>>]

(* ------------------------------------------------------------------ *)
(* Actions                                                              *)
(* ------------------------------------------------------------------ *)
Tick(step) ==
    /\ now + step <= MaxTime
    /\ now' = now + step
    /\ UNCHANGED <<nodes, up, blobs, disk, healing_queue, workers, uploaded, handlers, chunk_map>>

\* A storage node's server stops, or starts again with its folder intact.
NodeDown(n) ==
    /\ n \in up
    /\ up' = up \ {n}
    /\ UNCHANGED <<now, nodes, blobs, disk, healing_queue, workers, uploaded, handlers, chunk_map>>

NodeUp(n) ==
    /\ n \notin up
    /\ up' = up \cup {n}
    /\ UNCHANGED <<now, nodes, blobs, disk, healing_queue, workers, uploaded, handlers, chunk_map>>

Register(n) ==
    /\ nodes' = register_node(nodes, n, now)
    /\ UNCHANGED <<now, up, blobs, disk, healing_queue, workers, uploaded, handlers, chunk_map>>

Heartbeat(n) ==
    /\ UNCHANGED <<now, up, blobs, workers, uploaded, handlers, chunk_map>>
    /\ LET r == heartbeat(n, now, nodes, disk, healing_queue)
       IN /\ nodes' = r.nodes
          /\ disk' = r.disk
          /\ healing_queue' = r.queue

\* uuid4 mints an id no stored file has; generate_key() a fresh key.
UploadFile(bytes, file_id) ==
    /\ disk[file_id] = <<>>
    /\ \E r \in upload_file(bytes, file_id, KeyNames[FileIndex(file_id)],
                            nodes, disk, blobs, up) :
          /\ disk' = r.disk
          /\ blobs' = r.blobs
          /\ uploaded' = IF r.returned = "file_id"
                         THEN [uploaded EXCEPT ![file_id] = <<bytes>>]
                         ELSE uploaded
    /\ UNCHANGED <<now, nodes, up, healing_queue, workers, handlers, chunk_map>>

\* An upload that mints one of the first `limit` file ids.
UploadWithin(limit, bytes, file_id) ==
    /\ FileIndex(file_id) <= limit
    /\ UploadFile(bytes, file_id)

DownloadFile(file_id) ==
    /\ download_file(file_id, nodes, disk, blobs, up).returned \in STRING
    /\ UNCHANGED vars

\* The read-only endpoints: each answers from the state as it is.
GetManifest(file_id) ==
    /\ get_manifest(disk, file_id).status_code \in {200, 500}
    /\ UNCHANGED vars

GetSystemStatus ==
    /\ get_system_status(nodes, disk).status_code = 200
    /\ UNCHANGED vars

GetKeysInfo ==
    /\ get_keys_info(disk).status_code = 200
    /\ UNCHANGED vars

GetChunkLocations(chunk_id) ==
    /\ get_chunk_locations(chunk_map, chunk_id).status_code \in {200, 404}
    /\ UNCHANGED vars

AssignChunk(chunk_id, node_id) ==
    /\ chunk_map' = assign_chunk(chunk_map, chunk_id, node_id)
    /\ UNCHANGED <<now, nodes, up, blobs, disk, healing_queue, workers, uploaded, handlers>>

\* heal_now starts one more heal_chunks thread.
HealNow ==
    /\ workers < MaxWorkers
    /\ workers' = workers + 1
    /\ UNCHANGED <<now, nodes, up, blobs, disk, healing_queue, uploaded, handlers, chunk_map>>

\* One turn of a heal_chunks thread that finds the queue non-empty.
HealStep ==
    /\ workers > 0
    /\ healing_queue # <<>>
    /\ \E r \in heal_chunks(healing_queue, nodes, disk, blobs, up) :
          /\ healing_queue' = r.queue
          /\ disk' = r.disk
          /\ blobs' = r.blobs
          /\ workers' = IF r.died THEN workers - 1 ELSE workers
    /\ UNCHANGED <<now, nodes, up, uploaded, handlers, chunk_map>>

Next ==
    \/ \E step \in TickSteps : Tick(step)
    \/ \E n \in NodeIds : Register(n)
    \/ \E n \in NodeIds : Heartbeat(n)
    \/ \E bytes \in Files, file_id \in FileIds : UploadWithin(MaxUploads, bytes, file_id)
    \/ \E file_id \in FileIds : DownloadFile(file_id)
    \/ HealNow
    \/ HealStep

\* The coordinator with its clock, one stored file and nodes that answer.
Spec == Init /\ [][Next]_vars

\* Uploads and downloads of several files on nodes that stop and start,
\* with the clock standing still.
NextUploads ==
    \/ \E n \in NodeIds : NodeDown(n)
    \/ \E n \in NodeIds : NodeUp(n)
    \/ \E n \in NodeIds : Register(n)
    \/ \E bytes \in Files, file_id \in FileIds : UploadFile(bytes, file_id)
    \/ \E file_id \in FileIds : DownloadFile(file_id)

SpecUploads == Init /\ [][NextUploads]_vars

\* The coordinator with a single healing worker that keeps running: a
\* heal_chunks thread that finds the queue non-empty takes its turn.
NextHealing ==
    \/ \E step \in TickSteps : Tick(step)
    \/ \E n \in NodeIds : Register(n)
    \/ \E n \in NodeIds : Heartbeat(n)
    \/ \E bytes \in Files, file_id \in FileIds : UploadWithin(MaxUploads, bytes, file_id)
    \/ HealStep

\* The pop(0) that opens a turn of the worker: on a non-empty queue the
\* thread takes its head. Among the steps of NextHealing only HealStep
\* shortens the queue, so the worker's turns are the HealPop steps.
HealPop ==
    /\ workers > 0
    /\ healing_queue # <<>>
    /\ healing_queue' = Tail(healing_queue)

SpecHealing == Init /\ [][NextHealing]_vars /\ WF_healing_queue(HealPop)

\* One timeout period goes by after the first requests.
TimeoutElapses ==
    /\ now = 0
    /\ Tick(HEARTBEAT_TIMEOUT + 1)

\* The coordinator over one timeout period, with storage nodes that stop
\* and start while files are uploaded and chunks are healed.
NextFaults ==
    \/ TimeoutElapses
    \/ \E n \in NodeIds : NodeDown(n)
    \/ \E n \in NodeIds : NodeUp(n)
    \/ \E n \in NodeIds : Register(n)
    \/ \E n \in NodeIds : Heartbeat(n)
    \/ \E bytes \in Files, file_id \in FileIds : UploadWithin(MaxUploads, bytes, file_id)
    \/ HealStep

SpecFaults == Init /\ [][NextFaults]_vars

\* Every endpoint of the coordinator and its healing worker over one
\* timeout period; POST /chunk is called for the first chunk id.
NextEndpoints ==
    \/ TimeoutElapses
    \/ \E n \in NodeIds : Register(n)
    \/ \E n \in NodeIds : Heartbeat(n)
    \/ \E bytes \in Files, file_id \in FileIds : UploadWithin(MaxUploads, bytes, file_id)
    \/ \E file_id \in FileIds : DownloadFile(file_id)
    \/ \E file_id \in FileIds : GetManifest(file_id)
    \/ GetSystemStatus
    \/ GetKeysInfo
    \/ \E n \in NodeIds : AssignChunk(ChunkNames[1], n)
    \/ \E chunk_id \in ChunkIds : GetChunkLocations(chunk_id)
    \/ HealStep

SpecEndpoints == Init /\ [][NextEndpoints]_vars

(* ------------------------------------------------------------------ *)
(* Heartbeat requests running in the thread pool                        *)
(* ------------------------------------------------------------------ *)
\* heartbeat is a plain `def`, which FastAPI runs in a pool thread: two
\* requests run side by side, and a thread can be switched out between any
\* two of the steps below. Each step reads or writes shared state once.
\* A request is taken by the first free thread of the pool.
FirstFree(t) ==
    /\ hb[t].pc = "idle"
    /\ \A u \in Threads : hb[u].pc = "idle" => t <= u

\* now = time.time(); the caller's last_seen is set; list(nodes.keys()).
HbBegin(t, n) ==
    /\ FirstFree(t)
    /\ n \in Registered(nodes)
    /\ nodes' = SetLastSeen(nodes, n, now)
    /\ hb' = [hb EXCEPT ![t] = [IdleHeartbeat EXCEPT
                  !.pc = "sweep", !.t = now, !.keys = NodeKeys(nodes)]]
    /\ UNCHANGED <<now, up, blobs, disk, healing_queue, workers, uploaded, savers, lock, healer, loader, chunk_map>>

\* The head of the sweep loop: nodes[node_id] is read (a KeyError when
\* another request deleted the key ends this request) and tested.
HbSweep(t) ==
    /\ hb[t].pc = "sweep"
    /\ hb' = [hb EXCEPT ![t] =
                 IF hb[t].keys = <<>> THEN IdleHeartbeat
                 ELSE IF Head(hb[t].keys) \notin Registered(nodes) THEN IdleHeartbeat
                 ELSE IF TimedOut(hb[t].t, LastSeen(nodes, Head(hb[t].keys)))
                 THEN [@ EXCEPT !.pc = "mark",
                                !.dead_node_id = Head(hb[t].keys),
                                !.all_file_ids = list_manifests(disk)]
                 ELSE [@ EXCEPT !.keys = Tail(@)]]
    /\ UNCHANGED <<now, nodes, up, blobs, disk, healing_queue, workers, uploaded, savers, lock, healer, loader, chunk_map>>

\* mark_node_dead, the head of the loop over all_file_ids: load_manifest.
HbLoad(t) ==
    /\ hb[t].pc = "mark"
    /\ hb' = [hb EXCEPT ![t] =
                 IF hb[t].all_file_ids = <<>> THEN [@ EXCEPT !.pc = "del"]
                 ELSE LET l == load_manifest(disk, Head(hb[t].all_file_ids))
                      IN IF l.status = "FileNotFoundError"
                         THEN [@ EXCEPT !.all_file_ids = Tail(@)]
                         ELSE IF l.status # "ok" THEN IdleHeartbeat
                         ELSE [@ EXCEPT !.pc = "chunk", !.manifest = l.manifest,
                                        !.i = 1, !.needs_update = FALSE]]
    /\ UNCHANGED <<now, nodes, up, blobs, disk, healing_queue, workers, uploaded, savers, lock, healer, loader, chunk_map>>

\* One turn of the loop over the manifest's chunks, up to and including
\* the test `chunk["chunk_id"] not in healing_queue`.
HbChunk(t) ==
    /\ hb[t].pc = "chunk"
    /\ LET h      == hb[t]
           chunks == h.manifest.chunks
       IN hb' = [hb EXCEPT ![t] =
                    IF h.i > Len(chunks) THEN [@ EXCEPT !.pc = "save"]
                    ELSE IF h.dead_node_id \notin Range(chunks[h.i].node_ids)
                    THEN [@ EXCEPT !.i = @ + 1]
                    ELSE LET ids == RemoveFirst(chunks[h.i].node_ids, h.dead_node_id)
                             h1  == [h EXCEPT !.manifest.chunks[h.i].node_ids = ids,
                                              !.needs_update = TRUE]
                         IN IF /\ Len(ids) < CHUNK_REDUNDANCY
                               /\ chunks[h.i].chunk_id \notin Range(healing_queue)
                            THEN [h1 EXCEPT !.pc = "append"]
                            ELSE [h1 EXCEPT !.i = @ + 1]]
    /\ UNCHANGED <<now, nodes, up, blobs, disk, healing_queue, workers, uploaded, savers, lock, healer, loader, chunk_map>>

\* healing_queue.append(chunk["chunk_id"]), after the test succeeded.
HbAppend(t) ==
    /\ hb[t].pc = "append"
    /\ healing_queue' = Append(healing_queue, hb[t].manifest.chunks[hb[t].i].chunk_id)
    /\ hb' = [hb EXCEPT ![t] = [@ EXCEPT !.pc = "chunk", !.i = @ + 1]]
    /\ UNCHANGED <<now, nodes, up, blobs, disk, workers, uploaded, savers, lock, healer, loader, chunk_map>>

\* if needs_update: update_manifest(file_id, manifest), under the store lock.
HbSave(t) ==
    /\ hb[t].pc = "save"
    /\ lock = 0
    /\ disk' = IF hb[t].needs_update
               THEN update_manifest(disk, Head(hb[t].all_file_ids), hb[t].manifest)
               ELSE disk
    /\ hb' = [hb EXCEPT ![t] = [@ EXCEPT !.pc = "mark", !.all_file_ids = Tail(@)]]
    /\ UNCHANGED <<now, nodes, up, blobs, healing_queue, workers, uploaded, savers, lock, healer, loader, chunk_map>>

\* del nodes[node_id]: a KeyError when another request deleted it first.
HbDel(t) ==
    /\ hb[t].pc = "del"
    /\ IF hb[t].dead_node_id \in Registered(nodes)
       THEN /\ nodes' = DelNode(nodes, hb[t].dead_node_id)
            /\ hb' = [hb EXCEPT ![t] = [@ EXCEPT !.pc = "sweep", !.keys = Tail(@)]]
       ELSE /\ nodes' = nodes
            /\ hb' = [hb EXCEPT ![t] = IdleHeartbeat]
    /\ UNCHANGED <<now, up, blobs, disk, healing_queue, workers, uploaded, savers, lock, healer, loader, chunk_map>>

(* ------------------------------------------------------------------ *)
(* The heal_chunks thread, step by step                                 *)
(* ------------------------------------------------------------------ *)
\* heal_chunks runs in a thread of its own beside the pool threads, and
\* can be switched out between any two of the steps below.
\* chunk_id_to_heal = healing_queue.pop(0); list_manifests().
HwPop ==
    /\ workers > 0
    /\ healer.pc = "idle"
    /\ healing_queue # <<>>
    /\ healing_queue' = Tail(healing_queue)
    /\ healer' = [IdleHealer EXCEPT !.pc = "load",
                                    !.chunk_id_to_heal = Head(healing_queue),
                                    !.all_file_ids = list_manifests(disk)]
    /\ UNCHANGED <<now, nodes, up, blobs, disk, workers, uploaded, hb, savers, lock, loader, chunk_map>>

\* The head of the loop over all_file_ids: load_manifest, the search for
\* the chunk and the tests `needed <= 0` and `not alive_nodes`, which
\* read the loaded copy only.
HwLoad ==
    /\ healer.pc = "load"
    /\ IF healer.all_file_ids = <<>>
       THEN healer' = IdleHealer /\ workers' = workers
       ELSE LET l == load_manifest(disk, Head(healer.all_file_ids))
            IN IF l.status = "FileNotFoundError"
               THEN healer' = [healer EXCEPT !.all_file_ids = Tail(@)] /\ workers' = workers
               ELSE IF l.status # "ok"
               THEN healer' = IdleHealer /\ workers' = workers - 1
               ELSE LET hits == {i \in 1..Len(l.manifest.chunks) :
                                    l.manifest.chunks[i].chunk_id = healer.chunk_id_to_heal}
                        i    == CHOOSE i \in hits : \A j \in hits : i <= j
                    IN /\ workers' = workers
                       /\ healer' =
                            IF hits = {} THEN [healer EXCEPT !.all_file_ids = Tail(@)]
                            ELSE IF \/ Len(l.manifest.chunks[i].node_ids) >= CHUNK_REDUNDANCY
                                    \/ l.manifest.chunks[i].node_ids = <<>>
                            THEN IdleHealer
                            ELSE [healer EXCEPT !.pc = "heal", !.manifest = l.manifest,
                                                !.i = i,
                                                !.loaded = l.manifest.chunks[i].node_ids]
    /\ UNCHANGED <<now, nodes, up, blobs, disk, healing_queue, uploaded, hb, savers, lock, loader, chunk_map>>

\* available_nodes is read from the registry, then the copies are made,
\* each success appended to the loaded copy of the manifest.
HwHeal ==
    /\ healer.pc = "heal"
    /\ LET alive_nodes == healer.manifest.chunks[healer.i].node_ids
       IN \E r \in HealLoop(Registered(nodes) \ Range(alive_nodes), alive_nodes,
                            CHUNK_REDUNDANCY - Len(alive_nodes),
                            healer.chunk_id_to_heal, nodes, blobs, up) :
             /\ blobs' = r.blobs
             /\ healer' = [healer EXCEPT !.pc = "save",
                                         !.manifest.chunks[healer.i].node_ids = r.node_ids]
    /\ UNCHANGED <<now, nodes, up, disk, healing_queue, workers, uploaded, hb, savers, lock, loader, chunk_map>>

\* update_manifest(file_id, manifest) with the copy loaded in HwLoad,
\* under the store lock.
HwSave ==
    /\ healer.pc = "save"
    /\ lock = 0
    /\ disk' = update_manifest(disk, Head(healer.all_file_ids), healer.manifest)
    /\ healer' = IdleHealer
    /\ UNCHANGED <<now, nodes, up, blobs, healing_queue, workers, uploaded, hb, savers, lock, loader, chunk_map>>

\* register_node for each node id of a list, in order, at time t.
RECURSIVE RegisterAll(_, _, _)
RegisterAll(ns, ids, t) ==
    IF ids = <<>> THEN ns
    ELSE RegisterAll(register_node(ns, Head(ids), t), Tail(ids), t)

\* The coordinator when the heartbeats arrive: the nodes registered at
\* time 0 in some order, one file was uploaded, and HEARTBEAT_TIMEOUT + 1
\* later some of the nodes registered again; the others have timed out.
InitThreads ==
    \E order \in Perms(NodeIds), bytes \in Files, fresh \in Perms(NodeIds) :
    \E k \in 0..Len(fresh) :
        LET ns0 == RegisterAll(<<>>, order, 0)
        IN \E r \in upload_file(bytes, FileNames[1], KeyNames[1], ns0,
                                [f \in FileIds |-> <<>>],
                                [n \in NodeIds |-> EmptyFolder], NodeIds) :
              /\ now = HEARTBEAT_TIMEOUT + 1
              /\ nodes = RegisterAll(ns0, SubSeq(fresh, 1, k), HEARTBEAT_TIMEOUT + 1)
              /\ up = NodeIds
              /\ blobs = r.blobs
              /\ disk = r.disk
              /\ healing_queue = <<>>
              /\ workers = 1
              /\ uploaded = [f \in FileIds |->
                                IF f = FileNames[1] THEN <<bytes>> ELSE <<>>]
              /\ hb = [t \in Threads |-> IdleHeartbeat]
              /\ savers = [t \in Threads |-> IdleSaver]
              /\ lock = 0
              /\ healer = IdleHealer
              /\ loader = IdleLoader
              /\ chunk_map = [c \in ChunkIds |-> <<>>]

\* Heartbeat requests that run in pool threads, up to MaxThreads at a time.
NextThreads ==
    \/ \E t \in Threads, n \in NodeIds : HbBegin(t, n)
    \/ \E t \in Threads : HbSweep(t)
    \/ \E t \in Threads : HbLoad(t)
    \/ \E t \in Threads : HbChunk(t)
    \/ \E t \in Threads : HbAppend(t)
    \/ \E t \in Threads : HbSave(t)
    \/ \E t \in Threads : HbDel(t)

SpecThreads == InitThreads /\ [][NextThreads]_vars

\* One heartbeat request at a time in the pool, beside the heal_chunks
\* thread.
NextRace ==
    \/ \E n \in NodeIds : HbBegin(1, n)
    \/ HbSweep(1)
    \/ HbLoad(1)
    \/ HbChunk(1)
    \/ HbAppend(1)
    \/ HbSave(1)
    \/ HbDel(1)
    \/ HwPop
    \/ HwLoad
    \/ HwHeal
    \/ HwSave

SpecRace == InitThreads /\ [][NextRace]_vars

(* ------------------------------------------------------------------ *)
(* The manifest store on its own                                        *)
(* ------------------------------------------------------------------ *)
\* The manifests handed to the store: no chunk, one chunk on up to three
\* nodes, two chunks; their texts take two to five records.
StoreNodeLists == UNION {Perms(S) : S \in SUBSET NodeIds}

StoreManifests ==
    {Manifest(<<>>, KeyNames[1])}
      \cup {Manifest(<<ChunkRecord(ChunkNames[1], ids)>>, KeyNames[1]) :
                ids \in StoreNodeLists}
      \cup {Manifest(<<ChunkRecord(ChunkNames[1], <<"N1">>),
                       ChunkRecord(ChunkNames[2], ids)>>, KeyNames[1]) :
                ids \in {<<"N1">>, <<"N1", "N2", "N3">>}}

StoreSave(file_id, m) ==
    /\ disk' = save_manifest(disk, file_id, m)
    /\ UNCHANGED <<now, nodes, up, blobs, healing_queue, workers, uploaded, handlers, chunk_map>>

StoreUpdate(file_id, m) ==
    /\ disk' = update_manifest(disk, file_id, m)
    /\ UNCHANGED <<now, nodes, up, blobs, healing_queue, workers, uploaded, handlers, chunk_map>>

StoreDelete(file_id) ==
    /\ disk' = delete_manifest(disk, file_id)
    /\ UNCHANGED <<now, nodes, up, blobs, healing_queue, workers, uploaded, handlers, chunk_map>>

NextStore ==
    \/ \E file_id \in FileIds, m \in StoreManifests : StoreSave(file_id, m)
    \/ \E file_id \in FileIds, m \in StoreManifests : StoreUpdate(file_id, m)
    \/ \E file_id \in FileIds : StoreDelete(file_id)

SpecStore == Init /\ [][NextStore]_vars

(* ------------------------------------------------------------------ *)
(* save_manifest calls running side by side                             *)
(* ------------------------------------------------------------------ *)
\* A save_manifest call is taken by the first thread that has none.
FirstSaver(t) ==
    /\ savers[t].pc = "idle"
    /\ \A u \in Threads : savers[u].pc = "idle" => t <= u

\* json.dumps and the split into chunks, before the lock is asked for.
SaveBegin(t, file_id, m) ==
    /\ FirstSaver(t)
    /\ savers' = [savers EXCEPT ![t] =
                     [pc |-> "start", file_id |-> file_id, idx |-> 0,
                      chunks |-> ManifestChunks(json_dumps(m), MANIFEST_CHUNK_SIZE)]]
    /\ UNCHANGED <<now, nodes, up, blobs, disk, healing_queue, workers, uploaded, hb, lock, healer, loader, chunk_map>>

\* with self._lock: the thread waits until no other thread holds it.
SaveAcquire(t) ==
    /\ savers[t].pc = "start"
    /\ lock = 0
    /\ lock' = t
    /\ savers' = [savers EXCEPT ![t].pc = "write"]
    /\ UNCHANGED <<now, nodes, up, blobs, disk, healing_queue, workers, uploaded, hb, healer, loader, chunk_map>>

\* One turn of the loop over enumerate(chunks): record idx is encrypted
\* and written over whatever the file held.
SaveWrite(t) ==
    /\ savers[t].pc = "write"
    /\ savers[t].idx < Len(savers[t].chunks)
    /\ LET idx  == savers[t].idx + 1
           rec  == encrypt_bytes(savers[t].chunks[idx], MANIFEST_KEY)
           old  == disk[savers[t].file_id]
       IN disk' = [disk EXCEPT ![savers[t].file_id] =
                      IF idx <= Len(old) THEN [old EXCEPT ![idx] = rec]
                      ELSE Append(old, rec)]
    /\ savers' = [savers EXCEPT ![t].idx = @ + 1]
    /\ UNCHANGED <<now, nodes, up, blobs, healing_queue, workers, uploaded, hb, lock, healer, loader, chunk_map>>

\* The end of the with block: the lock is released and the call returns.
SaveRelease(t) ==
    /\ savers[t].pc = "write"
    /\ savers[t].idx = Len(savers[t].chunks)
    /\ lock' = 0
    /\ savers' = [savers EXCEPT ![t].pc = "done"]
    /\ UNCHANGED <<now, nodes, up, blobs, disk, healing_queue, workers, uploaded, hb, healer, loader, chunk_map>>

\* Up to MaxThreads save_manifest calls on an empty manifest directory.
NextSaves ==
    \/ \E t \in Threads, file_id \in FileIds, m \in StoreManifests :
          SaveBegin(t, file_id, m)
    \/ \E t \in Threads : SaveAcquire(t)
    \/ \E t \in Threads : SaveWrite(t)
    \/ \E t \in Threads : SaveRelease(t)

SpecSaves == Init /\ [][NextSaves]_vars

(* ------------------------------------------------------------------ *)
(* load_manifest beside save_manifest                                   *)
(* ------------------------------------------------------------------ *)
\* No save_manifest call is between its first and its last write.
StoreAtRest == \A t \in Threads : savers[t].pc # "write"

\* load_manifest is called, for a file whose manifest is stored whole.
LoadBegin(file_id) ==
    /\ loader.pc = "idle"
    /\ StoreAtRest
    /\ load_manifest(disk, file_id).status = "ok"
    /\ loader' = [IdleLoader EXCEPT !.pc = "read", !.file_id = file_id,
                                    !.start = disk[file_id]]
    /\ UNCHANGED <<now, nodes, up, blobs, disk, healing_queue, workers, uploaded, hb, savers, lock, healer, chunk_map>>

\* One turn of the `while True` loop: the record at idx is looked for,
\* read and decrypted; without the store lock. When there is no such
\* record the loop ends and the bytes read so far are parsed.
LoadRead ==
    /\ loader.pc = "read"
    /\ LET recs == disk[loader.file_id]
           idx  == loader.idx + 1
       IN loader' =
            IF idx > Len(recs)
            THEN [loader EXCEPT
                    !.pc = "done",
                    !.returned =
                        IF loader.manifest_data_bytes = <<>>
                        THEN [status |-> "FileNotFoundError"]
                        ELSE LET parsed == json_loads(loader.manifest_data_bytes)
                             IN IF parsed.ok
                                THEN [status |-> "ok", manifest |-> parsed.value]
                                ELSE [status |-> "JSONDecodeError"]]
            ELSE IF ~decrypt_ok(recs[idx], MANIFEST_KEY)
            THEN [loader EXCEPT !.pc = "done",
                                !.returned = [status |-> "InvalidToken"]]
            ELSE [loader EXCEPT
                    !.idx = idx,
                    !.manifest_data_bytes = @ \o decrypt_bytes(recs[idx], MANIFEST_KEY)]
    /\ UNCHANGED <<now, nodes, up, blobs, disk, healing_queue, workers, uploaded, hb, savers, lock, healer, chunk_map>>

\* Up to MaxThreads save_manifest calls on one file id and one
\* load_manifest call of it, side by side.
NextLoads ==
    \/ \E t \in Threads, m \in StoreManifests : SaveBegin(t, FileNames[1], m)
    \/ \E t \in Threads : SaveAcquire(t)
    \/ \E t \in Threads : SaveWrite(t)
    \/ \E t \in Threads : SaveRelease(t)
    \/ LoadBegin(FileNames[1])
    \/ LoadRead

SpecLoads == Init /\ [][NextLoads]_vars

(* ------------------------------------------------------------------ *)
(* Properties                                                           *)
(* ------------------------------------------------------------------ *)
\* The chunk descriptors of the manifest stored for file_id in directory d
\* (none when it cannot be loaded).
ChunksOf(d, file_id) ==
    LET l == load_manifest(d, file_id)
    IN IF l.status = "ok" THEN l.manifest.chunks ELSE <<>>

Age(ns, node_id) == now - LastSeen(ns, node_id)

\* C1: a file whose manifest records at least one chunk, each chunk with a
\* recorded replica that is registered and answers, downloads as exactly
\* the bytes it was uploaded with, whatever else was uploaded in between.
C1_DownloadReturnsUpload ==
    \A f \in FileIds :
        LET l == load_manifest(disk, f)
        IN (/\ uploaded[f] # <<>>
            /\ l.status = "ok"
            /\ l.manifest.chunks # <<>>
            /\ \A i \in 1..Len(l.manifest.chunks) :
                  \E n \in Range(l.manifest.chunks[i].node_ids) :
                      n \in Registered(nodes) /\ n \in up)
           => download_file(f, nodes, disk, blobs, up)
                = [returned |-> "file", content |-> uploaded[f][1]]

\* C2: no node id occurs twice in the node_ids of a stored chunk descriptor.
C2_NoDuplicateNodeIds ==
    \A f \in FileIds :
        \A i \in 1..Len(ChunksOf(disk, f)) :
            NoDuplicates(ChunksOf(disk, f)[i].node_ids)

\* C3: no stored chunk descriptor lists more than CHUNK_REDUNDANCY node ids.
C3_AtMostRedundancyReplicas ==
    \A f \in FileIds :
        \A i \in 1..Len(ChunksOf(disk, f)) :
            Len(ChunksOf(disk, f)[i].node_ids) <= CHUNK_REDUNDANCY

\* C4: when the worker heals a queued chunk that is short of replicas, has
\* a replica on a registered node, and every registered node answers, the
\* chunk ends with exactly min(CHUNK_REDUNDANCY, registered nodes) node ids.
C4_HealingRestoresRedundancy ==
    [][HealStep =>
         \A f \in FileIds :
             \A i \in 1..Len(ChunksOf(disk, f)) :
                 LET chunk == ChunksOf(disk, f)[i]
                 IN (/\ chunk.chunk_id = Head(healing_queue)
                     /\ Len(chunk.node_ids) < CHUNK_REDUNDANCY
                     /\ Range(chunk.node_ids) \cap Registered(nodes) # {}
                     /\ Registered(nodes) \subseteq up)
                    => /\ Len(ChunksOf(disk', f)) = Len(ChunksOf(disk, f))
                       /\ Len(ChunksOf(disk', f)[i].node_ids)
                            = Min(CHUNK_REDUNDANCY, Cardinality(Registered(nodes)))
      ]_vars

\* C5: after save_manifest or update_manifest of a manifest for a file id,
\* load_manifest of that id returns exactly that manifest, and the
\* directory holds as many records for the id as the new text has chunks.
C5_LoadReturnsLastSaved ==
    [][\A f \in FileIds, m \in StoreManifests :
          (StoreSave(f, m) \/ StoreUpdate(f, m))
            => /\ load_manifest(disk', f) = [status |-> "ok", manifest |-> m]
               /\ Len(disk'[f]) = Len(ManifestChunks(json_dumps(m), MANIFEST_CHUNK_SIZE))
      ]_vars

\* C6: once a sweep has removed a node from the registry, no chunk
\* descriptor of a stored manifest lists that node.
C6_EvictedNodeInNoManifest ==
    [][\A n \in Registered(nodes) \ Registered(nodes') :
          \A f \in FileIds :
              \A i \in 1..Len(ChunksOf(disk', f)) :
                  n \notin Range(ChunksOf(disk', f)[i].node_ids)
      ]_vars

\* C7: a heartbeat from a registered node leaves that node registered with
\* last_seen = now, however long it had been silent: the sweep of its own
\* heartbeat never evicts it.
C7_OwnHeartbeatNeverEvicts ==
    [][\A n \in Registered(nodes) :
          \/ /\ n \in Registered(nodes')
             /\ LastSeen(nodes', n) = now
          \/ ~Heartbeat(n)
      ]_vars

\* A node silent for longer than the timeout is registered, and its own
\* heartbeat keeps it while evicting another node.
C7_Witness ==
    \E n \in Registered(nodes) :
        /\ Age(nodes, n) > HEARTBEAT_TIMEOUT
        /\ LET r == heartbeat(n, now, nodes, disk, healing_queue)
           IN /\ n \in Registered(r.nodes)
              /\ Registered(r.nodes) # Registered(nodes)

\* C8: a registered node whose last heartbeat or registration is at most
\* HEARTBEAT_TIMEOUT old is not removed from the registry by any step.
C8_RegularNodeNeverEvicted ==
    [][\A n \in Registered(nodes) :
          now - LastSeen(nodes, n) <= HEARTBEAT_TIMEOUT => n \in Registered(nodes')
      ]_vars

\* A node last seen exactly HEARTBEAT_TIMEOUT ago survives another node's
\* heartbeat whose sweep evicts a third node.
C8_Witness ==
    \E n, c \in Registered(nodes) :
        /\ n # c
        /\ Age(nodes, n) = HEARTBEAT_TIMEOUT
        /\ LET r == heartbeat(c, now, nodes, disk, healing_queue)
           IN /\ n \in Registered(r.nodes)
              /\ Registered(r.nodes) # Registered(nodes)

\* C9: when a heartbeat from a registered node returns, every node left in
\* the registry was seen within HEARTBEAT_TIMEOUT.
C9_HeartbeatSweepsEveryTimedOutNode ==
    [][\A n \in Registered(nodes) :
          Heartbeat(n) =>
              \A m \in Registered(nodes') :
                  now - LastSeen(nodes', m) <= HEARTBEAT_TIMEOUT
      ]_vars

\* C10: a heartbeat from a node that is not registered answers 404 and
\* changes no node record; such a node enters the registry only by register.
C10_GhostHeartbeatRejected ==
    [][\A n \in NodeIds \ Registered(nodes) :
          /\ heartbeat(n, now, nodes, disk, healing_queue).status_code = 404
          /\ Heartbeat(n) => nodes' = nodes
          /\ n \in Registered(nodes') => nodes' = register_node(nodes, n, now)
      ]_vars

\* A node that held a chunk has been evicted while another node is still
\* registered: its next heartbeat is a ghost's.
C10_Witness ==
    \E n \in NodeIds \ Registered(nodes) :
        /\ nodes # <<>>
        /\ blobs[n] # EmptyFolder
        /\ now > HEARTBEAT_TIMEOUT

\* C12: at most one healing worker exists, whatever heal_now calls were
\* made.
C12_SingleHealingWorker == workers <= 1

\* C14: an upload that reported success stored a manifest with every chunk
\* of the file (the manifest has no list of failed chunks), and a download
\* that returns a file returns the uploaded bytes.
C14_NoChunkSilentlyDropped ==
    \A f \in FileIds :
        LET l == load_manifest(disk, f)
        IN (uploaded[f] # <<>> /\ l.status = "ok")
           => /\ Len(l.manifest.chunks)
                   = Len(split_file(uploaded[f][1], CHUNK_SIZE_BYTES))
              /\ LET got == download_file(f, nodes, disk, blobs, up)
                 IN got.returned = "file" => got.content = uploaded[f][1]

\* C15: no chunk id is recorded in the manifests of two different files.
C15_ChunkIdsGloballyUnique ==
    \A f, g \in FileIds :
        f # g =>
            {ChunksOf(disk, f)[i].chunk_id : i \in 1..Len(ChunksOf(disk, f))}
              \cap {ChunksOf(disk, g)[i].chunk_id : i \in 1..Len(ChunksOf(disk, g))}
              = {}

\* C16: with an empty registry upload_file answers 503, stores nothing on
\* any node and leaves the manifest store as it was.
C16_NoNodesOnlineRejected ==
    nodes = <<>> =>
        \A bytes \in Files, f \in FileIds :
            \A r \in upload_file(bytes, f, KeyNames[FileIndex(f)],
                                 nodes, disk, blobs, up) :
                /\ upload_file_response(r).status_code = 503
                /\ r.disk = disk
                /\ r.blobs = blobs

\* C17: download_file and get_manifest of a file id with no stored
\* manifest answer 404.
C17_MissingManifestIs404 ==
    \A f \in FileIds :
        disk[f] = <<>> =>
            /\ download_file_response(
                   download_file(f, nodes, disk, blobs, up)).status_code = 404
            /\ get_manifest(disk, f).status_code = 404

\* C18: when some chunk of a readable manifest has no recorded node that
\* is registered and gives bytes that decrypt, download_file answers 502
\* and returns no content.
C18_ChunkUnavailableIs502 ==
    \A f \in FileIds :
        LET l == load_manifest(disk, f)
        IN (/\ l.status = "ok"
            /\ \E i \in 1..Len(l.manifest.chunks) :
                  ~FetchChunk(l.manifest.chunks[i].node_ids,
                              l.manifest.chunks[i].chunk_id,
                              l.manifest.encryption_key,
                              nodes, blobs, up).success)
           => LET got == download_file(f, nodes, disk, blobs, up)
              IN /\ download_file_response(got).status_code = 502
                 /\ got.content = <<>>

\* C13: a stored chunk that has fewer than CHUNK_REDUNDANCY replicas while
\* at least CHUNK_REDUNDANCY nodes are registered and answer is eventually
\* on CHUNK_REDUNDANCY nodes, unless the registry shrinks below that first.
UnderReplicated(f, i) ==
    /\ i <= Len(ChunksOf(disk, f))
    /\ ChunksOf(disk, f)[i].node_ids # <<>>
    /\ Cardinality(Range(ChunksOf(disk, f)[i].node_ids)) < CHUNK_REDUNDANCY
    /\ Cardinality(Registered(nodes)) >= CHUNK_REDUNDANCY
    /\ Registered(nodes) \subseteq up

C13_UnderReplicatedUploadIsHealed ==
    \A f \in FileIds : \A i \in 1..Len(ChunkNames) :
        UnderReplicated(f, i) ~> ~UnderReplicated(f, i)

\* C11: the healing queue holds each chunk id at most once, also when two
\* heartbeat requests process node deaths side by side.
C11_QueueHoldsEachChunkOnce == NoDuplicates(healing_queue)

\* C19: when two save_manifest calls for the same file id have both
\* returned, the directory holds for that id exactly the records of one of
\* the two manifests.
SavedRecords(chunks) ==
    [idx \in 1..Len(chunks) |-> encrypt_bytes(chunks[idx], MANIFEST_KEY)]

C19_ConcurrentSavesLeaveOneManifest ==
    \A t, u \in Threads :
        (/\ t # u
         /\ savers[t].pc = "done"
         /\ savers[u].pc = "done"
         /\ savers[t].file_id = savers[u].file_id)
        => disk[savers[t].file_id]
             \in {SavedRecords(savers[t].chunks), SavedRecords(savers[u].chunks)}

\* C20: no upload and no download leaves a staging file, a split chunk
\* file or a temp chunk directory behind, whatever its outcome.
C20_RequestsLeaveNoScratch ==
    /\ \A bytes \in Files, f \in FileIds :
          disk[f] = <<>> =>
              \A r \in upload_file(bytes, f, KeyNames[FileIndex(f)],
                                   nodes, disk, blobs, up) :
                  upload_file_scratch(r, bytes, f) = {}
    /\ \A f \in FileIds :
          download_file_scratch(download_file(f, nodes, disk, blobs, up), f) = {}

\* C21: for every chunk of a readable manifest, download_file takes the
\* chunk from the first node of node_ids, in manifest order, that is
\* registered, answers and holds bytes that decrypt under the file key;
\* nodes before it that are unregistered, unreachable, without the chunk or
\* holding bytes under another key are passed over. The chunk fails only
\* when no recorded node is good, and the download returns a file when
\* every chunk has a good replica.
GoodReplica(node_id, chunk_id, file_key) ==
    /\ node_id \in Registered(nodes)
    /\ node_id \in up
    /\ blobs[node_id][chunk_id] # NoBlob
    /\ blobs[node_id][chunk_id].key = file_key

GoodPositions(chunk, file_key) ==
    {j \in 1..Len(chunk.node_ids) : GoodReplica(chunk.node_ids[j], chunk.chunk_id, file_key)}

C21_FirstGoodReplicaInManifestOrder ==
    \A f \in FileIds :
        LET l == load_manifest(disk, f)
        IN l.status = "ok" =>
            /\ \A i \in 1..Len(l.manifest.chunks) :
                  LET chunk == l.manifest.chunks[i]
                      key   == l.manifest.encryption_key
                      good  == GoodPositions(chunk, key)
                      got   == FetchChunk(chunk.node_ids, chunk.chunk_id, key,
                                          nodes, blobs, up)
                  IN IF good = {} THEN ~got.success
                     ELSE LET first == CHOOSE j \in good : \A k \in good : j <= k
                          IN /\ got.success
                             /\ got.decrypted_chunk
                                  = blobs[chunk.node_ids[first]][chunk.chunk_id].data
            /\ (\A i \in 1..Len(l.manifest.chunks) :
                    GoodPositions(l.manifest.chunks[i], l.manifest.encryption_key) # {})
                 => download_file(f, nodes, disk, blobs, up).returned = "file"

\* A stored chunk whose first recorded node holds bytes of another file
\* (they do not decrypt under the file key) or does not answer, while a
\* later recorded node is good, and the download returns a file.
C21_Witness ==
    \E f \in FileIds :
        LET l == load_manifest(disk, f)
        IN /\ l.status = "ok"
           /\ l.manifest.chunks # <<>>
           /\ LET chunk == l.manifest.chunks[1]
                  key   == l.manifest.encryption_key
              IN /\ Len(chunk.node_ids) >= 2
                 /\ chunk.node_ids[1] \in up
                 /\ blobs[chunk.node_ids[1]][chunk.chunk_id] # NoBlob
                 /\ blobs[chunk.node_ids[1]][chunk.chunk_id].key # key
                 /\ 1 \notin GoodPositions(chunk, key)
                 /\ GoodPositions(chunk, key) # {}
           /\ download_file(f, nodes, disk, blobs, up).returned = "file"

\* The nodes mark_node_dead can be called for in this state: the first
\* timed-out key a heartbeat from some registered node would sweep.
SweptFirst ==
    {n \in Registered(nodes) :
        \E c \in Registered(nodes) :
            LET ns1  == SetLastSeen(nodes, c, now)
                late == {k \in 1..Len(ns1) : TimedOut(now, ns1[k].last_seen)}
            IN /\ late # {}
               /\ n = ns1[CHOOSE k \in late : \A j \in late : k <= j].node_id}

\* The nodes other than n recorded for the i-th chunk of file f.
ReplicasLeft(f, i, n) == Range(ChunksOf(disk, f)[i].node_ids) \ {n}

\* C22: mark_node_dead(n) leaves in the healing queue the id of every
\* stored chunk that listed n and has fewer than CHUNK_REDUNDANCY other
\* replicas (none included), newly queues only ids of chunks that listed
\* n, and rewrites only manifests with a chunk that listed n.
C22_MarkDeadQueuesExactlyTheShortChunks ==
    \A n \in SweptFirst :
        LET r == mark_node_dead(n, disk, healing_queue)
        IN /\ \A f \in FileIds :
                 \A i \in 1..Len(ChunksOf(disk, f)) :
                     (/\ n \in Range(ChunksOf(disk, f)[i].node_ids)
                      /\ Cardinality(ReplicasLeft(f, i, n)) < CHUNK_REDUNDANCY)
                     => ChunksOf(disk, f)[i].chunk_id \in Range(r.queue)
           /\ \A id \in Range(r.queue) \ Range(healing_queue) :
                 \E f \in FileIds :
                     \E i \in 1..Len(ChunksOf(disk, f)) :
                         /\ ChunksOf(disk, f)[i].chunk_id = id
                         /\ n \in Range(ChunksOf(disk, f)[i].node_ids)
           /\ \A f \in FileIds :
                 r.disk[f] # disk[f] =>
                     \E i \in 1..Len(ChunksOf(disk, f)) :
                         n \in Range(ChunksOf(disk, f)[i].node_ids)

\* The chunk descriptors the worker's scan stops at for chunk id `id`: the
\* first one with that id in the first manifest, in list_manifests order,
\* that has one.
Patient(id) ==
    LET ids  == list_manifests(disk)
        hits == {k \in 1..Len(ids) :
                    \E i \in 1..Len(ChunksOf(disk, ids[k])) :
                        ChunksOf(disk, ids[k])[i].chunk_id = id}
    IN IF hits = {} THEN {}
       ELSE LET f  == ids[CHOOSE k \in hits : \A j \in hits : k <= j]
                at == {i \in 1..Len(ChunksOf(disk, f)) :
                          ChunksOf(disk, f)[i].chunk_id = id}
            IN {ChunksOf(disk, f)[CHOOSE i \in at : \A j \in at : i <= j]}

\* The head of the healing queue is a chunk with no node id left.
HeadIsLost ==
    /\ healing_queue # <<>>
    /\ \E chunk \in Patient(Head(healing_queue)) : chunk.node_ids = <<>>

\* C23: a turn of the worker that pops a chunk whose node_ids is empty
\* stores nothing on any node, leaves the manifest directory unchanged,
\* takes the id off the queue without putting it back and keeps running.
C23_LostChunkIsDroppedUntouched ==
    [][(HeadIsLost /\ HealStep) =>
          /\ blobs' = blobs
          /\ disk' = disk
          /\ healing_queue' = Tail(healing_queue)
          /\ Head(healing_queue) \notin Range(healing_queue')
          /\ workers' = workers
      ]_vars

\* The worker is about to pop a chunk whose only replica was evicted, with
\* another node registered that could take a copy.
C23_Witness ==
    /\ workers > 0
    /\ HeadIsLost
    /\ nodes # <<>>
    /\ heal_chunks(healing_queue, nodes, disk, blobs, up)
         = {[queue |-> Tail(healing_queue), disk |-> disk, blobs |-> blobs,
             died |-> FALSE]}

\* The node ids the stored manifest of f lists for chunk id `id` in
\* directory d.
RecordedFor(d, f, id) ==
    UNION {Range(ChunksOf(d, f)[i].node_ids) :
              i \in {j \in 1..Len(ChunksOf(d, f)) : ChunksOf(d, f)[j].chunk_id = id}}

\* C24: every node id a stored chunk descriptor lists is of a node that
\* took the chunk by store_chunk. A step records a node for a chunk only
\* when that node answered and holds the chunk afterwards; an upload
\* records every node that took the chunk; healing records a node only
\* when a recorded, registered donor answered with the chunk, and no more
\* nodes than the chunk was short of; a turn of the worker in which no
\* donor or no candidate answers leaves the recorded node ids as they were.
C24_RecordedOnlyAfterStoreAck ==
    [][/\ disk' # disk =>
            \A f \in FileIds : \A id \in ChunkIds :
                LET before == RecordedFor(disk, f, id)
                    after  == RecordedFor(disk', f, id)
                    donors == {n \in before \cap Registered(nodes) :
                                  get_chunk_ok(blobs, up, n, id)}
                IN /\ \A n \in after : blobs'[n][id] # NoBlob
                   /\ \A n \in after \ before :
                         /\ n \in up
                         /\ n \in Registered(nodes)
                         /\ blobs'[n][id].key
                              = load_manifest(disk', f).manifest.encryption_key
                   /\ (disk[f] = <<>> /\ disk'[f] # <<>>) =>
                         \A n \in NodeIds : blobs'[n][id] # blobs[n][id] => n \in after
                   /\ (disk[f] # <<>> /\ after \ before # {}) =>
                         /\ donors # {}
                         /\ \A i \in 1..Len(ChunksOf(disk, f)) :
                               ChunksOf(disk, f)[i].chunk_id = id =>
                                   Cardinality(after \ before)
                                     <= CHUNK_REDUNDANCY - Len(ChunksOf(disk, f)[i].node_ids)
       /\ (/\ healing_queue # <<>>
           /\ healing_queue' = Tail(healing_queue)
           /\ HealStep) =>
            \A chunk \in Patient(Head(healing_queue)) :
                LET holders == Range(chunk.node_ids)
                    donors  == {n \in holders \cap Registered(nodes) :
                                   get_chunk_ok(blobs, up, n, chunk.chunk_id)}
                IN (donors = {} \/ (Registered(nodes) \ holders) \cap up = {}) =>
                       /\ blobs' = blobs
                       /\ \A f \in FileIds : \A id \in ChunkIds :
                             RecordedFor(disk', f, id) = RecordedFor(disk, f, id)
      ]_vars

\* The worker is about to heal a chunk that has a donor, with one
\* registered candidate that does not answer and another that does.
C24_Witness ==
    /\ workers > 0
    /\ healing_queue # <<>>
    /\ \E chunk \in Patient(Head(healing_queue)) :
          /\ \E n \in Range(chunk.node_ids) \cap Registered(nodes) :
                get_chunk_ok(blobs, up, n, chunk.chunk_id)
          /\ (Registered(nodes) \ Range(chunk.node_ids)) \ up # {}
          /\ (Registered(nodes) \ Range(chunk.node_ids)) \cap up # {}
    /\ \E r \in heal_chunks(healing_queue, nodes, disk, blobs, up) : r.disk # disk

HealerFile == Head(healer.all_file_ids)

\* A save by heal_chunks brings back node n: its copy, loaded before the
\* removal of n was saved, lists n, and the stored manifest does not.
HealerRestores(n) ==
    /\ healer.pc = "save"
    /\ healer'.pc = "idle"
    /\ n \in Range(healer.loaded)
    /\ n \notin RecordedFor(disk, HealerFile, healer.chunk_id_to_heal)
    /\ n \in RecordedFor(disk', HealerFile, healer.chunk_id_to_heal)

\* A save by mark_node_dead in thread t erases node m from chunk i: the
\* stored manifest lists m, which the copy loaded earlier never did.
MarkDeadErases(t, m, i) ==
    /\ hb[t].pc = "save"
    /\ hb'[t].pc = "mark"
    /\ hb[t].needs_update
    /\ i \in 1..Len(hb[t].manifest.chunks)
    /\ m # hb[t].dead_node_id
    /\ m \notin Range(hb[t].manifest.chunks[i].node_ids)
    /\ m \in RecordedFor(disk, Head(hb[t].all_file_ids),
                         hb[t].manifest.chunks[i].chunk_id)
    /\ m \notin RecordedFor(disk', Head(hb[t].all_file_ids),
                            hb[t].manifest.chunks[i].chunk_id)

\* C26: a node-death update is never lost or undone by interleaving. A
\* save by the healing worker whose copy was loaded before mark_node_dead
\* saved the removal of n does not put n back into the stored manifest,
\* and a save by mark_node_dead based on an earlier load does not erase a
\* node that healing has added to the stored manifest since.
C26_NoLostManifestUpdate ==
    [][/\ \A n \in NodeIds : ~HealerRestores(n)
       /\ \A t \in Threads, m \in NodeIds, i \in 1..Len(ChunkNames) :
             ~MarkDeadErases(t, m, i)]_vars

\* The first half on its own: the save of the healing worker.
HealerSaveKeepsRemoval == [][\A n \in NodeIds : ~HealerRestores(n)]_vars

\* The second half on its own: the save of mark_node_dead.
MarkDeadSaveKeepsHealing ==
    [][\A t \in Threads, m \in NodeIds, i \in 1..Len(ChunkNames) :
          ~MarkDeadErases(t, m, i)]_vars

\* The step in which the request of thread t fails with a KeyError: the
\* node it reads in the sweep, or deletes after mark_node_dead, is one
\* that another request has deleted.
HbKeyError(t) ==
    /\ hb'[t].pc = "idle"
    /\ \/ /\ hb[t].pc = "sweep"
          /\ hb[t].keys # <<>>
          /\ Head(hb[t].keys) \notin Registered(nodes)
       \/ /\ hb[t].pc = "del"
          /\ hb[t].dead_node_id \notin Registered(nodes)

\* The last request in progress ends, by a return or by a failure.
LastHandlerEnds ==
    /\ \E t \in Threads : hb[t].pc # "idle"
    /\ \A t \in Threads : hb'[t].pc = "idle"

\* The registry on its own: when the last of the concurrent heartbeat
\* requests ends, no timed-out node is left in the registry.
TimedOutNodeEndsRemoved ==
    [][LastHandlerEnds =>
          \A n \in Registered(nodes') : ~TimedOut(now, LastSeen(nodes', n))]_vars

\* C27: when two heartbeat handlers run concurrently and both observe
\* the same timed-out node, the node ends up removed from the registry
\* and neither handler fails: no handler reads or deletes a node that the
\* other has already deleted, so every request ends by returning alive.
C27_ConcurrentSweepsBothReturnAlive ==
    [][/\ \A t \in Threads : ~HbKeyError(t)
       /\ LastHandlerEnds =>
             \A n \in Registered(nodes') : ~TimedOut(now, LastSeen(nodes', n))]_vars

\* C28: the sweep removes every timed-out node from the registry even
\* when a stored manifest cannot be read. Whatever the manifest directory
\* holds, a heartbeat from a registered node returns alive (200), and no
\* node it found timed out is left registered afterwards.
C28_SweepRemovesEveryTimedOutNode ==
    \A n \in Registered(nodes) :
        LET r == heartbeat(n, now, nodes, disk, healing_queue)
        IN /\ r.status_code = 200
           /\ \A m \in Registered(r.nodes) : ~TimedOut(now, LastSeen(r.nodes, m))

\* What load_manifest returns for file f when nothing else runs and the
\* file's records are recs.
LoadAtRest(recs, f) == load_manifest([disk EXCEPT ![f] = recs], f)

\* The records of a file after a whole save_manifest of `chunks` over recs.
SavedOver(recs, chunks) ==
    [idx \in 1..(IF Len(chunks) >= Len(recs) THEN Len(chunks) ELSE Len(recs)) |->
        IF idx <= Len(chunks) THEN encrypt_bytes(chunks[idx], MANIFEST_KEY)
        ELSE recs[idx]]

\* The save_manifest calls made for the loader's file, complete or not.
SavesDuringLoad ==
    {t \in Threads : /\ savers[t].pc # "idle"
                     /\ savers[t].file_id = loader.file_id}

\* What the load may return: the manifest stored when it began, or what
\* is stored once a save that ran beside it is complete.
WholeVersions ==
    {LoadAtRest(loader.start, loader.file_id)}
        \cup {LoadAtRest(SavedOver(loader.start, savers[t].chunks), loader.file_id) :
                 t \in SavesDuringLoad}

\* C29: a load_manifest that runs beside a save_manifest or
\* update_manifest of the same file id returns either the complete
\* previous manifest or the complete new one: never a combination of
\* records of both, and never a decoding failure from such a combination.
C29_LoadReturnsOneWholeVersion ==
    loader.pc = "done" => loader.returned \in WholeVersions

====
